---- MODULE Spec2Model ----
(***************************************************************************)
(* Session hub of the collaboration server: ConnectionManager and the      *)
(* per-connection task websocket_endpoint (backend/api/websocket.py), the  *)
(* SessionState record (backend/models/messages.py) and the store facade   *)
(* RedisService (backend/services/redis_service.py).                       *)
(*                                                                         *)
(* Scheduling is asyncio's: one task per connection, one task runs at a    *)
(* time, and a task gives up control only at an await that suspends        *)
(* (accept, receive_json, send_json).  Every action below is one           *)
(* synchronous segment of a task, from one suspension to the next.         *)
(*                                                                         *)
(* Numbers: mu, omega and kappa are held in units of 1e-4, beta in units   *)
(* of 1e-5, instants in milliseconds.                                      *)
(***************************************************************************)
EXTENDS Integers, Sequences, FiniteSets, TLC

\* ------------------------------------------------------------------ bounds
MaxSeq == 3
MaxUpdateSeq == 4
MaxTime == 500
TickMs == 250

\* ------------------------------------------------------- program constants
ConflictWindowMs == 500
Tolerance == 10
MuDefault == 5690
OmegaDefault == 8470
KappaDefault == 207
MuMin == 5000
MuMax == 7000
OmegaMin == 5000
OmegaMax == 15000
KappaMin == 100
KappaMax == 500
BetaC == 108
BetaOne == 100000
MuScale == 10

\* Values that are not numbers of the scaled domain.
None == 999999
NonNumeric == 888888

Sessions == {"s1"}
Users == {"A", "B", "C"}
Fields == {"mu", "omega", "kappa"}
FieldOrder == <<"mu", "omega", "kappa">>

NoUser == "none"
NoConn == "none"
NoSession == "none"

\* --------------------------------------------------------------- dict helpers
Put(f, k, v) == [x \in (DOMAIN f) \cup {k} |-> IF x = k THEN v ELSE f[x]]
Del(f, k) == [x \in (DOMAIN f) \ {k} |-> f[x]]
EmptyDict == [x \in {} |-> 0]

RECURSIVE SeqRemove(_, _)
SeqRemove(q, e) ==
    IF q = << >> THEN << >>
    ELSE IF Head(q) = e THEN SeqRemove(Tail(q), e)
    ELSE <<Head(q)>> \o SeqRemove(Tail(q), e)

SeqElems(q) == {q[i] : i \in 1..Len(q)}

\* dict[key] = value on an insertion-ordered dict of which only the keys are kept
SeqPut(q, e) == IF e \in SeqElems(q) THEN q ELSE Append(q, e)

Abs(x) == IF x < 0 THEN -x ELSE x

\* ------------------------------------------------------------ SessionState
IsNumber(v) == v # NonNumeric /\ v # None

SessionStateDefault ==
    [mu |-> MuDefault, omega |-> OmegaDefault, kappa |-> KappaDefault, beta |-> None]

\* beta = 1 - mu - kappa * c, in units of 1e-5
BetaOf(mu, kappa) == BetaOne - mu * MuScale - kappa * BetaC

\* compute_beta raises TypeError when mu or kappa is not a number
ComputeBetaRaises(st) == ~IsNumber(st.mu) \/ ~IsNumber(st.kappa)

ComputeBeta(st) == [st EXCEPT !.beta = BetaOf(st.mu, st.kappa)]

\* Field(ge=..., le=...): the declared bounds, enforced by the constructor only
InBounds(k, v) ==
    /\ IsNumber(v)
    /\ CASE k = "mu" -> v >= MuMin /\ v <= MuMax
         [] k = "omega" -> v >= OmegaMin /\ v <= OmegaMax
         [] k = "kappa" -> v >= KappaMin /\ v <= KappaMax
         [] OTHER -> TRUE

\* SessionState(**fields) raises ValidationError on a field out of its bounds
ConstructorRaises(rec) == \E k \in Fields : ~InBounds(k, rec[k])

\* setattr(state, key, value) for every item of params: no validation on assignment
RECURSIVE SetAttrs(_, _, _)
SetAttrs(st, params, i) ==
    IF i > Len(FieldOrder) THEN st
    ELSE LET k == FieldOrder[i]
         IN  SetAttrs(IF k \in DOMAIN params THEN [st EXCEPT ![k] = params[k]] ELSE st,
                      params, i + 1)


\* ------------------------------------------------------------------- state
VARIABLES
    active_connections,   \* ConnectionManager: sessionId -> set of websockets
    session_seq,          \* sessionId -> sequence number
    session_state,        \* sessionId -> SessionState
    session_users,        \* sessionId -> user ids, in insertion order of the dict
    ws_to_user,           \* websocket -> userId
    last_update_time,     \* sessionId -> (field -> instant)
    redis_enabled,        \* RedisService.is_enabled()
    redis_state,          \* session:{id}:state
    redis_history,        \* session:{id}:history
    redis_users,          \* session:{id}:users
    task,                 \* websocket_endpoint: the locals and position of each task
    open,                 \* transport of each websocket still up
    deleting,             \* delete_session: the request being served, if any
    refresh,              \* AuthService.refresh_token: a call, its instant and result
    now,                  \* datetime.utcnow(), in ms
    sent,                 \* the frame written by the last step, and to whom
    lastRecv,             \* per websocket: seq of the last broadcast written to it
    hub                   \* per live hub: record of what it has stamped so far

vars == <<active_connections, session_seq, session_state, session_users, ws_to_user,
          last_update_time, redis_enabled, redis_state, redis_history, redis_users,
          task, open, deleting, refresh, now, sent, lastRecv, hub>>

\* The manager's dicts, the store and the hub records as one value, so that
\* the calls of one synchronous segment compose.
Mem ==
    [ac |-> active_connections, seq |-> session_seq, st |-> session_state,
     users |-> session_users, w2u |-> ws_to_user, lut |-> last_update_time,
     rs |-> redis_state, rh |-> redis_history, ru |-> redis_users, hub |-> hub,
     on |-> redis_enabled]

\* ------------------------------------------------------- services.auth
\* JWT_EXPIRATION: 24 hours, in ms
TokenLifeMs == 86400000

\* A token: its claims, and whether jwt.decode accepts its signature and form.
NoToken == [user_id |-> NoUser, username |-> "none", email |-> "none",
            is_anonymous |-> FALSE, exp |-> 0, iat |-> 0, signed |-> FALSE]

\* create_token at instant t
CreateToken(user_id, username, email, is_anonymous, t) ==
    [user_id |-> user_id, username |-> username, email |-> email,
     is_anonymous |-> is_anonymous, exp |-> t + TokenLifeMs, iat |-> t, signed |-> TRUE]

NoTokenData == [user_id |-> NoUser, username |-> "none", email |-> "none",
                is_anonymous |-> FALSE, exp |-> 0]

\* verify_token at instant t: jwt.decode raises InvalidTokenError on a bad
\* signature and ExpiredSignatureError once exp has passed; both give None
VerifyTokenAt(tok, t) ==
    IF ~tok.signed \/ tok.exp <= t THEN NoTokenData
    ELSE [user_id |-> tok.user_id, username |-> tok.username, email |-> tok.email,
          is_anonymous |-> tok.is_anonymous, exp |-> tok.exp]

\* a refresh with a sliding grace: the expiry of the old token is not looked at
RefreshTokenSliding(tok, t) ==
    IF ~tok.signed THEN NoToken
    ELSE CreateToken(tok.user_id, tok.username, tok.email, tok.is_anonymous, t)

\* refresh_token at instant t
RefreshToken(tok, t) ==
    LET token_data == VerifyTokenAt(tok, t)
    IN  IF token_data = NoTokenData THEN NoToken
        ELSE CreateToken(token_data.user_id, token_data.username, token_data.email,
                         token_data.is_anonymous, t)

\* no refresh_token call has been made
NoRefresh == [token |-> NoToken, called |-> FALSE, at |-> 0, result |-> NoToken]

\* no delete_session request is being served
NoDelete == [session_id |-> NoSession, todo |-> {}, ws |-> NoConn]

\* ------------------------------------------------------------------ frames
NoState == [params |-> SessionStateDefault, seq |-> None]
NoDesc == [param |-> "none", yourValue |-> None, theirValue |-> None, theirUserId |-> NoUser]

NoFrame ==
    [type |-> "none", seq |-> None, userId |-> NoUser, params |-> EmptyDict,
     currentState |-> NoState, conflict |-> NoDesc, users |-> << >>,
     sessionId |-> NoSession]
NoMsg == [type |-> "none", seq |-> None, userId |-> NoUser, params |-> EmptyDict,
          via |-> "none"]
NothingSent == [to |-> NoConn, frame |-> NoFrame]

\* the frame send_json writes for a stamped broadcast message
MsgFrame(msg) ==
    [NoFrame EXCEPT !.type = msg.type, !.seq = msg.seq, !.userId = msg.userId,
                    !.params = msg.params]

AuthSuccessFrame(s, uid, roster, cur) ==
    [NoFrame EXCEPT !.type = "auth:success", !.sessionId = s, !.userId = uid,
                    !.users = roster, !.currentState = cur]

AuthFailedFrame == [NoFrame EXCEPT !.type = "auth:failed"]

ConflictFrame(desc) == [NoFrame EXCEPT !.type = "conflict:detected", !.conflict = desc]

StateFrame(cur) == [NoFrame EXCEPT !.type = "session:state", !.currentState = cur]

PongFrame == [NoFrame EXCEPT !.type = "pong"]

BroadcastTypes == {"param:broadcast", "session:joined", "session:left"}

\* ------------------------------------------------------- hub record (history)
NoUpdater == [k \in Fields |-> NoUser]

\* seq0: the counter at creation; lastSeq: the seq of the last stamped message;
\* chain: every stamped seq was one more than the stamp before it; joined, left,
\* updates: the messages stamped, by type; emitted: the state the
\* completed updates amount to; updater, at: who made the last update of each
\* field, and when it was accepted
NewHub(seq0, st) ==
    [seq0 |-> seq0, lastSeq |-> seq0, chain |-> TRUE, joined |-> 0, left |-> 0,
     updates |-> 0, emitted |-> st, updater |-> NoUpdater,
     at |-> [k \in Fields |-> None]]

\* ----------------------------------------------------- ConnectionManager.disconnect
\* del d[k] for the four per-session dicts, in the order of the code; the first
\* missing key raises KeyError and leaves the later dicts as they are.
CleanupEmpty(M, s) ==
    LET M1 == [M EXCEPT !.ac = Del(M.ac, s), !.hub = Del(M.hub, s)]
    IN  IF s \notin DOMAIN M1.seq THEN [m |-> M1, raised |-> TRUE]
        ELSE LET M2 == [M1 EXCEPT !.seq = Del(M1.seq, s)]
        IN  IF s \notin DOMAIN M2.st THEN [m |-> M2, raised |-> TRUE]
        ELSE LET M3 == [M2 EXCEPT !.st = Del(M2.st, s)]
        IN  IF s \notin DOMAIN M3.users THEN [m |-> M3, raised |-> TRUE]
        ELSE LET M4 == [M3 EXCEPT !.users = Del(M3.users, s)]
        IN  IF s \notin DOMAIN M4.lut THEN [m |-> M4, raised |-> TRUE]
        ELSE [m |-> [M4 EXCEPT !.lut = Del(M4.lut, s)], raised |-> FALSE]

DisconnectM(M, ws, s) ==
    IF s \notin DOMAIN M.ac THEN [m |-> M, raised |-> FALSE]
    ELSE
      LET M1 == [M EXCEPT !.ac[s] = @ \ {ws}]
          M2 == IF ws \in DOMAIN M1.w2u
                THEN LET uid == M1.w2u[ws]
                     IN  [M1 EXCEPT !.w2u = Del(M1.w2u, ws),
                                    !.users = IF s \in DOMAIN M1.users
                                              THEN [M1.users EXCEPT ![s] = SeqRemove(@, uid)]
                                              ELSE M1.users]
                ELSE M1
      IN  IF M2.ac[s] = {} THEN CleanupEmpty(M2, s)
          ELSE [m |-> M2, raised |-> FALSE]

\* for ws in dead_sockets: self.disconnect(ws, session_id)
RECURSIVE DisconnectAll(_, _, _)
DisconnectAll(M, dead, s) ==
    IF dead = {} THEN [m |-> M, raised |-> FALSE]
    ELSE LET ws == CHOOSE w \in dead : TRUE
             r == DisconnectM(M, ws, s)
         IN  IF r.raised THEN r ELSE DisconnectAll(r.m, dead \ {ws}, s)

\* ------------------------------------------------------------ RedisService
\* a snapshot that leaves the seq out: restored.get('seq', 0) then gives 0
SnapshotUnstamped(st, seq) ==
    [mu |-> st.mu, omega |-> st.omega, kappa |-> st.kappa, beta |-> st.beta, seq |-> 0]

Snapshot(st, seq) ==
    [mu |-> st.mu, omega |-> st.omega, kappa |-> st.kappa, beta |-> st.beta, seq |-> seq]

\* a save that drops the update times of the session when the store is off
SaveOrForget(M, s, st, seq) ==
    IF ~M.on THEN [M EXCEPT !.lut = Del(M.lut, s)]
    ELSE [M EXCEPT !.rs = Put(M.rs, s, Snapshot(st, seq))]

SaveSessionState(M, s, st, seq) ==
    IF ~M.on THEN M
    ELSE [M EXCEPT !.rs = Put(M.rs, s, Snapshot(st, seq))]

\* zremrangebyrank(key, 0, -1001): the last 1000 events are kept
HistoryLimit == 1000

LastEvents(q) ==
    IF Len(q) <= HistoryLimit THEN q ELSE SubSeq(q, Len(q) - HistoryLimit + 1, Len(q))

\* a history that records every event under the user id "unknown"
AddToHistoryUnknown(M, s, uid, params, seq) ==
    IF ~M.on THEN M
    ELSE LET ev == [seq |-> seq, user_id |-> "unknown", params |-> params]
             old == IF s \in DOMAIN M.rh THEN M.rh[s] ELSE << >>
         IN  [M EXCEPT !.rh = Put(M.rh, s, LastEvents(Append(old, ev)))]

AddToHistory(M, s, uid, params, seq) ==
    IF ~M.on THEN M
    ELSE LET ev == [seq |-> seq, user_id |-> uid, params |-> params]
             old == IF s \in DOMAIN M.rh THEN M.rh[s] ELSE << >>
         IN  [M EXCEPT !.rh = Put(M.rh, s, LastEvents(Append(old, ev)))]

AddUserToSession(M, s, uid) ==
    IF ~M.on THEN M
    ELSE LET old == IF s \in DOMAIN M.ru THEN M.ru[s] ELSE {}
         IN  [M EXCEPT !.ru = Put(M.ru, s, old \cup {uid})]

\* ------------------------------------------- ConnectionManager.broadcast (head)
\* The part of broadcast before its fan-out loop: no await, so one segment.
\* status: "skip" (no such session), "raised" (an exception leaves it), "ok".
StampHub(h, msg) ==
    [h EXCEPT !.lastSeq = msg.seq,
              !.chain = @ /\ msg.seq = h.lastSeq + 1,
              !.joined = IF msg.type = "session:joined" THEN @ + 1 ELSE @,
              !.left = IF msg.type = "session:left" THEN @ + 1 ELSE @,
              !.updates = IF msg.type = "param:broadcast" THEN @ + 1 ELSE @]

StampTimes(lut, params) ==
    [k \in (DOMAIN lut) \cup (DOMAIN params) |-> IF k \in DOMAIN params THEN now ELSE lut[k]]

\* The hub record of an update whose state change went through.
RecordUpdate(h, st, uid, params) ==
    [h EXCEPT !.emitted = st,
              !.updater = [k \in Fields |-> IF k \in DOMAIN params THEN uid ELSE @[k]],
              !.at = [k \in Fields |-> IF k \in DOMAIN params THEN now ELSE @[k]]]

ApplyUpdate(M, s, msg) ==
    IF s \notin DOMAIN M.st THEN [m |-> M, status |-> "raised", msg |-> msg]
    ELSE
      LET st1 == SetAttrs(M.st[s], msg.params, 1)
      IN  IF DOMAIN msg.params # {} /\ s \notin DOMAIN M.lut
          THEN \* the first setattr is done when the stamp after it raises KeyError
               LET k1 == FieldOrder[CHOOSE i \in 1..Len(FieldOrder) :
                                        /\ FieldOrder[i] \in DOMAIN msg.params
                                        /\ \A j \in 1..(i - 1) :
                                               FieldOrder[j] \notin DOMAIN msg.params]
               IN  [m |-> [M EXCEPT !.st[s][k1] = msg.params[k1]], status |-> "raised",
                    msg |-> msg]
          ELSE
            LET M1 == IF DOMAIN msg.params = {} THEN M
                      ELSE [M EXCEPT !.st[s] = st1,
                                     !.lut[s] = StampTimes(@, msg.params)]
            IN  IF ComputeBetaRaises(st1)
                THEN [m |-> M1, status |-> "raised", msg |-> msg]
                ELSE
                  LET st2 == ComputeBeta(st1)
                      M2 == [M1 EXCEPT !.st[s] = st2,
                                       !.hub[s] = RecordUpdate(@, st2, msg.userId, msg.params)]
                      M3 == SaveSessionState(M2, s, st2, M2.seq[s])
                      M4 == AddToHistory(M3, s, msg.userId, msg.params, M3.seq[s])
                  IN  [m |-> M4, status |-> "ok", msg |-> msg]

\* a counter that skips a value
NextSeqSkips(n) == n + 2

\* self.session_seq[session_id] += 1
NextSeq(n) == n + 1

BroadcastHead(M, s, type, uid, params, via) ==
    IF s \notin DOMAIN M.ac THEN [m |-> M, status |-> "skip", msg |-> NoMsg]
    ELSE IF s \notin DOMAIN M.seq THEN [m |-> M, status |-> "raised", msg |-> NoMsg]
    ELSE
      LET q == NextSeq(M.seq[s])
          msg == [type |-> type, seq |-> q, userId |-> uid, params |-> params,
                  via |-> via]
          M1 == [M EXCEPT !.seq[s] = q, !.hub[s] = StampHub(@, msg)]
      IN  IF type = "param:broadcast" THEN ApplyUpdate(M1, s, msg)
          ELSE [m |-> M1, status |-> "ok", msg |-> msg]

\* --------------------------------------- ConnectionManager.get_session_state
\* a reply that is always the default state at seq 0
GetSessionStateDefault(M, s) == [params |-> SessionStateDefault, seq |-> 0]

GetSessionState(M, s) ==
    IF s \notin DOMAIN M.st THEN [params |-> SessionStateDefault, seq |-> 0]
    ELSE [params |-> M.st[s], seq |-> IF s \in DOMAIN M.seq THEN M.seq[s] ELSE 0]

\* ------------------------------------------ ConnectionManager.detect_conflict
NoConflict == [kind |-> "none", desc |-> NoDesc]
ConflictRaised == [kind |-> "raised", desc |-> NoDesc]

\* the first other user of the roster, in the dict's order
RECURSIVE FirstOther(_, _)
FirstOther(roster, uid) ==
    IF roster = << >> THEN "unknown"
    ELSE IF Head(roster) # uid THEN Head(roster)
    ELSE FirstOther(Tail(roster), uid)

\* a window that still holds at exactly 500 ms
InWindowInclusive(elapsed) == elapsed <= ConflictWindowMs

InWindow(elapsed) == elapsed < ConflictWindowMs

Differs(current, new) == Abs(current - new) > Tolerance

DetectConflict(M, s, param, new, uid) ==
    IF s \notin DOMAIN M.lut THEN NoConflict
    ELSE IF param \notin DOMAIN M.lut[s] THEN NoConflict
    ELSE IF ~InWindow(now - M.lut[s][param]) THEN NoConflict
    ELSE IF s \notin DOMAIN M.st THEN ConflictRaised
    ELSE
      LET current == M.st[s][param]
      IN  IF current = None THEN NoConflict
          ELSE IF ~IsNumber(current) \/ ~IsNumber(new) THEN ConflictRaised
          ELSE IF ~Differs(current, new) THEN NoConflict
          ELSE IF s \notin DOMAIN M.users THEN ConflictRaised
          ELSE [kind |-> "conflict",
                desc |-> [param |-> param, yourValue |-> new, theirValue |-> current,
                          theirUserId |-> FirstOther(M.users[s], uid)]]

\* for param, value in params.items(): conflicts.append(...)
ConflictResults(M, s, params, uid) ==
    [i \in 1..Len(FieldOrder) |->
        IF FieldOrder[i] \in DOMAIN params
        THEN DetectConflict(M, s, FieldOrder[i], params[FieldOrder[i]], uid)
        ELSE NoConflict]

RECURSIVE ConflictList(_, _)
ConflictList(res, i) ==
    IF i > Len(res) THEN << >>
    ELSE IF res[i].kind = "conflict" THEN <<res[i].desc>> \o ConflictList(res, i + 1)
    ELSE ConflictList(res, i + 1)

\* ------------------------------------------------------- websocket_endpoint
Conns == {"c1", "c2", "c3"}

IdleTask ==
    [pc |-> "closed", session_id |-> NoSession, user_id |-> NoUser, msg |-> NoMsg,
     seen |-> {}, orig |-> {}, size |-> 0, dead |-> {}, excl |-> NoConn,
     stale |-> FALSE, pend |-> << >>]

\* back in `await websocket.receive_json()`, the locals of broadcast gone
Receiving(T) ==
    [IdleTask EXCEPT !.pc = "recv", !.session_id = T.session_id, !.user_id = T.user_id]

\* the locals of broadcast when its loop starts: the iterator over the set
FanCtx(T, M, msg, excl) ==
    [T EXCEPT !.pc = "fanout", !.msg = msg, !.seen = {}, !.orig = M.ac[T.session_id],
              !.size = Cardinality(M.ac[T.session_id]), !.dead = {}, !.excl = excl,
              !.stale = FALSE, !.pend = << >>]

\* A set that is emptied and dropped from active_connections stays empty: the
\* iterators still held over it see its size changed.
MarkStale(tk, M) ==
    [c \in Conns |->
        IF /\ tk[c].pc = "fanout"
           /\ tk[c].session_id \in DOMAIN active_connections
           /\ tk[c].session_id \notin DOMAIN M.ac
        THEN [tk[c] EXCEPT !.stale = TRUE]
        ELSE tk[c]]

Write(M, tk, snt, lr, op) ==
    /\ active_connections' = M.ac
    /\ session_seq' = M.seq
    /\ session_state' = M.st
    /\ session_users' = M.users
    /\ ws_to_user' = M.w2u
    /\ last_update_time' = M.lut
    /\ redis_state' = M.rs
    /\ redis_history' = M.rh
    /\ redis_users' = M.ru
    /\ hub' = M.hub
    /\ task' = MarkStale(tk, M)
    /\ sent' = snt
    /\ lastRecv' = lr
    /\ open' = op
    /\ UNCHANGED <<redis_enabled, now, refresh>>

\* the end of a segment of a websocket task
Commit(M, tk, snt, lr, op) ==
    /\ Write(M, tk, snt, lr, op)
    /\ UNCHANGED deleting

\* the task is over: the endpoint returns or an exception leaves it
EndTask(M, c, T) ==
    Commit(M, [task EXCEPT ![c] = IdleTask], NothingSent, lastRecv,
           [open EXCEPT ![c] = FALSE])

ToRecv(M, c, T) ==
    Commit(M, [task EXCEPT ![c] = Receiving(T)], NothingSent, lastRecv, open)

\* await websocket.send_json(...) to the task's own websocket, then `after`
SendOwn(M, c, T, frame, OnRaise(_, _, _)) ==
    IF open[c]
    THEN Commit(M, [task EXCEPT ![c] = T], [to |-> c, frame |-> frame], lastRecv, open)
    ELSE OnRaise(M, c, T)

\* One segment of the fan-out loop of broadcast: next(iterator), skip the
\* excluded websocket, one send_json; or the end of the loop and the cleanup
\* of dead_sockets.
RunLoop(M, c, T, OnRaise(_, _, _), OnReturn(_, _, _)) ==
    LET s == T.session_id
        cur == IF T.stale \/ s \notin DOMAIN M.ac THEN {} ELSE M.ac[s]
        remOrig == ((cur \cap T.orig) \ T.seen) \ {T.excl}
        remNew == ((cur \ T.orig) \ T.seen) \ {T.excl}
    IN  IF Cardinality(cur) # T.size THEN OnRaise(M, c, T)
        ELSE
          \/ \E ws \in remOrig \cup remNew :
               IF open[ws]
               THEN Commit(M, [task EXCEPT ![c] = [T EXCEPT !.seen = @ \cup {ws}]],
                           [to |-> ws, frame |-> MsgFrame(T.msg)],
                           [lastRecv EXCEPT ![ws] = T.msg.seq], open)
               ELSE Commit(M, [task EXCEPT ![c] = [T EXCEPT !.seen = @ \cup {ws},
                                                            !.dead = @ \cup {ws}]],
                           NothingSent, lastRecv, open)
          \/ /\ remOrig = {}
             /\ LET r == DisconnectAll(M, T.dead, s)
                IN  IF r.raised THEN OnRaise(r.m, c, T) ELSE OnReturn(r.m, c, T)

\* finally: manager.disconnect(websocket, session_id); if user_id: broadcast
Finally(M, c, T) ==
    LET r == DisconnectM(M, c, T.session_id)
    IN  IF r.raised \/ T.user_id = NoUser THEN EndTask(r.m, c, T)
        ELSE
          LET b == BroadcastHead(r.m, T.session_id, "session:left", T.user_id,
                                 EmptyDict, "left")
          IN  IF b.status # "ok" THEN EndTask(b.m, c, T)
              ELSE RunLoop(b.m, c, FanCtx(T, b.m, b.msg, NoConn), EndTask, EndTask)

\* await manager.broadcast(..., exclude=websocket) inside the try block
BroadcastFrom(M, c, T, type, uid, params, via) ==
    LET b == BroadcastHead(M, T.session_id, type, uid, params, via)
    IN  CASE b.status = "skip" -> ToRecv(b.m, c, T)
          [] b.status = "raised" -> Finally(b.m, c, T)
          [] OTHER -> RunLoop(b.m, c, FanCtx(T, b.m, b.msg, c), Finally, ToRecv)

\* ------------------------------------------------------------------ inputs
\* param:update payloads: one primary, or mu and omega together
One(k, v) == [x \in {k} |-> v]
MuOmega(m, w) == [x \in {"mu", "omega"} |-> IF x = "mu" THEN m ELSE w]

\* a payload inside the declared ranges
PlainProposals == {One("mu", 6000)}

\* payloads that agree within the tolerance, differ beyond it, touch one or two
\* parameters
ConflictProposals ==
    {One("mu", 6005), MuOmega(6000, 12000), MuOmega(6500, 9000)}

\* mu above its declared maximum; mu that is not a number
OddProposals == {One("mu", 8000), One("mu", NonNumeric)}

Tokens == {"tokA", "tokB", "tokC", "bad"}

\* the tokens jwt.decode raises on: malformed, wrongly signed or expired
Unverifiable == {"bad"}

\* a verification that takes every token that is not B's as A's
VerifyTokenLenient(tok) == IF tok = "tokB" THEN "B" ELSE "A"

\* services.auth.verify_token: the user id of a token that verifies, or NoUser
VerifyToken(tok) ==
    CASE tok = "tokA" -> "A"
      [] tok = "tokB" -> "B"
      [] tok = "tokC" -> "C"
      [] OTHER -> NoUser

\* -------------------------------------------------------------------- init
Start(redis) ==
    /\ active_connections = EmptyDict
    /\ session_seq = EmptyDict
    /\ session_state = EmptyDict
    /\ session_users = EmptyDict
    /\ ws_to_user = EmptyDict
    /\ last_update_time = EmptyDict
    /\ redis_enabled = redis
    /\ redis_state = EmptyDict
    /\ redis_history = EmptyDict
    /\ redis_users = EmptyDict
    /\ task = [c \in Conns |-> IdleTask]
    /\ open = [c \in Conns |-> FALSE]
    /\ deleting = NoDelete
    /\ refresh = NoRefresh
    /\ now = 0
    /\ sent = NothingSent
    /\ lastRecv = [c \in Conns |-> 0]
    /\ hub = EmptyDict

\* REDIS_ENABLED=true, the default of the deployment
Init == Start(TRUE)

\* REDIS_ENABLED=false: the hub lives in memory only
InitMemory == Start(FALSE)

\* either deployment
InitAnyStore == \E redis \in BOOLEAN : Start(redis)

\* frames that start a broadcast are taken while the counter is below n
Below(c, n) ==
    task[c].session_id \in DOMAIN session_seq => session_seq[task[c].session_id] < n

\* ------------------------------------------------ ConnectionManager.connect
\* a store that never returns a snapshot
HasSnapshotNever(M, s) == FALSE

\* load_session_state returns a snapshot (truthy) or None
HasSnapshot(M, s) == M.on /\ s \in DOMAIN M.rs

\* the body of connect after accept(); raised: SessionState(**restored) failed
\* a connect whose creation runs again for a session that is live, as it would
\* if a second task had passed the check before the first had created the hub
ConnectMAgain(M, ws, s) ==
    LET old == IF s \in DOMAIN M.ac THEN M.ac[s] ELSE {}
        seq == IF HasSnapshot(M, s) THEN M.rs[s].seq ELSE 0
    IN  [m |-> [M EXCEPT !.ac = Put(M.ac, s, old \cup {ws}),
                         !.seq = Put(M.seq, s, seq),
                         !.st = Put(M.st, s, SessionStateDefault),
                         !.users = Put(M.users, s, << >>),
                         !.lut = Put(M.lut, s, EmptyDict),
                         !.hub = Put(M.hub, s, NewHub(seq, SessionStateDefault))],
         raised |-> FALSE]

ConnectM(M, ws, s) ==
    IF s \in DOMAIN M.ac
    THEN [m |-> [M EXCEPT !.ac[s] = @ \cup {ws}], raised |-> FALSE]
    ELSE
      LET M1 == [M EXCEPT !.ac = Put(M.ac, s, {})]
      IN  IF HasSnapshot(M, s)
          THEN
            LET restored == M.rs[s]
                M2 == [M1 EXCEPT !.seq = Put(M1.seq, s, restored.seq)]
                st == [mu |-> restored.mu, omega |-> restored.omega,
                       kappa |-> restored.kappa, beta |-> restored.beta]
            IN  IF ConstructorRaises(st)
                THEN [m |-> [M2 EXCEPT !.hub = Put(M2.hub, s, NewHub(restored.seq, st))],
                      raised |-> TRUE]
                ELSE [m |-> [M2 EXCEPT !.st = Put(M2.st, s, st),
                                       !.users = Put(M2.users, s, << >>),
                                       !.lut = Put(M2.lut, s, EmptyDict),
                                       !.hub = Put(M2.hub, s, NewHub(restored.seq, st)),
                                       !.ac[s] = {ws}],
                      raised |-> FALSE]
          ELSE [m |-> [M1 EXCEPT !.seq = Put(M1.seq, s, 0),
                                 !.st = Put(M1.st, s, SessionStateDefault),
                                 !.users = Put(M1.users, s, << >>),
                                 !.lut = Put(M1.lut, s, EmptyDict),
                                 !.hub = Put(M1.hub, s, NewHub(0, SessionStateDefault)),
                                 !.ac[s] = {ws}],
                raised |-> FALSE]

\* a websocket object is new: the iterators and dead sets of running
\* broadcasts hold the object that had this name before, which is in no set
Forget(tk, ws) ==
    [c \in Conns |-> [tk[c] EXCEPT !.seen = @ \ {ws}, !.orig = @ \ {ws}, !.dead = @ \ {ws}]]

\* the list of delete_session holds the object that had this name before
ForgetDeleting(ws) ==
    [deleting EXCEPT !.todo = @ \ {ws}, !.ws = IF @ = ws THEN NoConn ELSE @]

Connect(c, s) ==
    /\ task[c].pc = "closed"
    /\ c \notin DOMAIN ws_to_user
    /\ \A s2 \in DOMAIN active_connections : c \notin active_connections[s2]
    /\ LET r == ConnectM(Mem, c, s)
           tk == Forget(task, c)
       IN  /\ deleting' = ForgetDeleting(c)
           /\ IF r.raised
              THEN Write(r.m, tk, NothingSent, [lastRecv EXCEPT ![c] = 0], open)
              ELSE Write(r.m, [tk EXCEPT ![c] = [IdleTask EXCEPT !.pc = "recv",
                                                                !.session_id = s]],
                         NothingSent, [lastRecv EXCEPT ![c] = 0],
                         [open EXCEPT ![c] = TRUE])

\* the client, or the network, closes the transport
ClientClose(c) ==
    /\ task[c].pc # "closed"
    /\ open[c]
    /\ open' = [open EXCEPT ![c] = FALSE]
    /\ sent' = NothingSent
    /\ UNCHANGED <<active_connections, session_seq, session_state, session_users,
                   ws_to_user, last_update_time, redis_enabled, redis_state,
                   redis_history, redis_users, task, now, lastRecv, hub, deleting, refresh>>

\* receive_json raises WebSocketDisconnect: except, then finally
Disconnected(c) ==
    /\ task[c].pc = "recv"
    /\ ~open[c]
    /\ Finally(Mem, c, task[c])

\* --------------------------------------------- ConnectionManager.add_user
\* a roster shared by the sessions: the user is entered in every live one
AddUserEverywhere(M, ws, s, uid) ==
    LET M1 == [M EXCEPT !.users = [t \in (DOMAIN M.users) \cup {s} |->
                                      SeqPut(IF t \in DOMAIN M.users THEN M.users[t]
                                             ELSE << >>, uid)],
                        !.w2u = Put(M.w2u, ws, uid)]
    IN  AddUserToSession(M1, s, uid)

AddUser(M, ws, s, uid) ==
    LET roster == IF s \in DOMAIN M.users THEN M.users[s] ELSE << >>
        M1 == [M EXCEPT !.users = Put(M.users, s, SeqPut(roster, uid)),
                        !.w2u = Put(M.w2u, ws, uid)]
    IN  AddUserToSession(M1, s, uid)

GetSessionUsers(M, s) == IF s \in DOMAIN M.users THEN M.users[s] ELSE << >>

\* msg_type == 'auth', up to the await of the auth:success or auth:failed send
Auth(c, tok) ==
    /\ task[c].pc = "recv"
    /\ LET T == task[c]
           s == T.session_id
           uid == VerifyToken(tok)
       IN  IF uid = NoUser
           THEN SendOwn(Mem, c, T, AuthFailedFrame, Finally)
           ELSE
             LET T1 == [T EXCEPT !.user_id = uid]
                 M1 == AddUser(Mem, c, s, uid)
                 frame == AuthSuccessFrame(s, uid, GetSessionUsers(M1, s),
                                           GetSessionState(M1, s))
             IN  SendOwn(M1, c, [T1 EXCEPT !.pc = "authSent"], frame, Finally)

\* an auth that announces nothing
AuthSilent(c) ==
    /\ task[c].pc = "authSent"
    /\ ToRecv(Mem, c, task[c])

\* msg_type == 'auth', from the resumption after the auth:success send
AuthBroadcast(c) ==
    /\ task[c].pc = "authSent"
    /\ BroadcastFrom(Mem, c, task[c], "session:joined", task[c].user_id, EmptyDict, "joined")

\* a handler that reports the first conflict only
OnConflictFirstOnly(M, c, T, conflicts) ==
    SendOwn(M, c, T, ConflictFrame(Head(conflicts)), Finally)

\* for conflict in conflicts: await websocket.send_json(conflict:detected)
OnConflict(M, c, T, conflicts) ==
    SendOwn(M, c,
            IF Len(conflicts) = 1 THEN T
            ELSE [T EXCEPT !.pc = "conflicts", !.pend = Tail(conflicts)],
            ConflictFrame(Head(conflicts)), Finally)

\* a handler that suspends between its conflict check and the broadcast: the
\* check is made in one segment, the update applied in a later one
ParamUpdateYielding(c, params) ==
    \/ /\ task[c].pc = "recv"
       /\ LET T == task[c]
              s == T.session_id
              res == ConflictResults(Mem, s, params, T.user_id)
              conflicts == ConflictList(res, 1)
          IN  IF T.user_id = NoUser THEN ToRecv(Mem, c, T)
              ELSE IF \E i \in DOMAIN res : res[i].kind = "raised" THEN Finally(Mem, c, T)
              ELSE IF conflicts # << >> THEN OnConflict(Mem, c, T, conflicts)
              ELSE Commit(Mem, [task EXCEPT ![c] = [T EXCEPT !.pc = "checked",
                                                             !.msg.params = params]],
                          NothingSent, lastRecv, open)
    \/ /\ task[c].pc = "checked"
       /\ task[c].msg.params = params
       /\ BroadcastFrom(Mem, c, Receiving(task[c]), "param:broadcast", task[c].user_id,
                        params, "update")

\* msg_type == 'param:update', up to its first await that suspends
ParamUpdate(c, params) ==
    /\ task[c].pc = "recv"
    /\ LET T == task[c]
           s == T.session_id
           res == ConflictResults(Mem, s, params, T.user_id)
           conflicts == ConflictList(res, 1)
       IN  IF T.user_id = NoUser THEN ToRecv(Mem, c, T)
           ELSE IF \E i \in DOMAIN res : res[i].kind = "raised" THEN Finally(Mem, c, T)
           ELSE IF conflicts # << >>
           THEN OnConflict(Mem, c, T, conflicts)
           ELSE BroadcastFrom(Mem, c, T, "param:broadcast", T.user_id, params, "update")

\* the next conflict:detected send of the `for conflict in conflicts` loop
ConflictSend(c) ==
    /\ task[c].pc = "conflicts"
    /\ LET T == task[c]
       IN  SendOwn(Mem, c,
                   IF Len(T.pend) = 1 THEN Receiving(T) ELSE [T EXCEPT !.pend = Tail(@)],
                   ConflictFrame(Head(T.pend)), Finally)

\* msg_type == 'conflict:resolved'
ConflictResolved(c, param, value) ==
    /\ task[c].pc = "recv"
    /\ LET T == task[c]
       IN  IF T.user_id = NoUser THEN ToRecv(Mem, c, T)
           ELSE BroadcastFrom(Mem, c, T, "param:broadcast", T.user_id,
                              [k \in {param} |-> value], "resolved")

\* the lastSeenSeq values a client may send
LastSeenSeqs == {0, 7}

\* msg_type == 'session:resync': last_seen_seq is read and only logged
Resync(c, last_seen_seq) ==
    /\ task[c].pc = "recv"
    /\ SendOwn(Mem, c, task[c], StateFrame(GetSessionState(Mem, task[c].session_id)),
               Finally)

\* msg_type == 'ping'
Ping(c) ==
    /\ task[c].pc = "recv"
    /\ SendOwn(Mem, c, task[c], PongFrame, Finally)

\* frames the endpoint has no branch or no field for
FrameKinds ==
    {"unknown", "malformed", "auth_nopayload", "update_nopayload", "resolved_noparam",
     "resync_nopayload"}

\* A frame of a type no branch matches falls through the if/elif chain;
\* receive_json raises on text that is not JSON; data['payload'] and
\* data['payload']['param'] raise KeyError on a frame without the field, for
\* param:update and conflict:resolved after the `if not user_id: continue`.
\* Every exception is caught by `except Exception` and followed by finally.
BadFrame(c, kind) ==
    /\ task[c].pc = "recv"
    /\ LET T == task[c]
       IN  CASE kind = "unknown" -> ToRecv(Mem, c, T)
             [] kind \in {"update_nopayload", "resolved_noparam"} /\ T.user_id = NoUser
                   -> ToRecv(Mem, c, T)
             [] OTHER -> Finally(Mem, c, T)

\* delete_session: the next iteration of `for ws in list(...)`, up to the
\* await of ws.close(); after the last one the handler returns
CloseNext(M, s, todo) ==
    IF todo = {}
    THEN Write(M, task, NothingSent, lastRecv, open) /\ deleting' = NoDelete
    ELSE \E ws \in todo :
            /\ Write(M, task, NothingSent, lastRecv, [open EXCEPT ![ws] = FALSE])
            /\ deleting' = [session_id |-> s, todo |-> todo \ {ws}, ws |-> ws]

\* DELETE /sessions/{session_id}: 404 when the session has no connection set
DeleteSession(s) ==
    /\ deleting = NoDelete
    /\ IF s \notin DOMAIN active_connections
       THEN Write(Mem, task, NothingSent, lastRecv, open) /\ deleting' = NoDelete
       ELSE CloseNext(Mem, s, active_connections[s])

\* delete_session resumed after ws.close(): manager.disconnect(ws, session_id),
\* then the next iteration; a KeyError in disconnect ends the handler
DeleteStep ==
    /\ deleting # NoDelete
    /\ LET r == DisconnectM(Mem, deleting.ws, deleting.session_id)
       IN  IF r.raised
           THEN Write(r.m, task, NothingSent, lastRecv, open) /\ deleting' = NoDelete
           ELSE CloseNext(r.m, deleting.session_id, deleting.todo)

\* POST /auth/refresh: refresh_token(request.token), now
Refresh ==
    /\ ~refresh.called
    /\ refresh' = [refresh EXCEPT !.called = TRUE, !.at = now,
                                  !.result = RefreshToken(refresh.token, now)]
    /\ sent' = NothingSent
    /\ UNCHANGED <<active_connections, session_seq, session_state, session_users,
                   ws_to_user, last_update_time, redis_enabled, redis_state,
                   redis_history, redis_users, task, open, now, lastRecv, hub, deleting>>

\* the token just issued is presented in the next request
RefreshAgain ==
    /\ refresh.called /\ refresh.result # NoToken
    /\ refresh' = [NoRefresh EXCEPT !.token = refresh.result]
    /\ sent' = NothingSent
    /\ UNCHANGED <<active_connections, session_seq, session_state, session_users,
                   ws_to_user, last_update_time, redis_enabled, redis_state,
                   redis_history, redis_users, task, open, now, lastRecv, hub, deleting>>

\* a task suspended in a send of broadcast's loop is resumed
FanOutStep(c) ==
    /\ task[c].pc = "fanout"
    /\ IF task[c].msg.via = "left"
       THEN RunLoop(Mem, c, task[c], EndTask, EndTask)
       ELSE RunLoop(Mem, c, task[c], Finally, ToRecv)

\* time passes
Tick ==
    /\ now + TickMs <= MaxTime
    /\ now' = now + TickMs
    /\ sent' = NothingSent
    /\ UNCHANGED <<active_connections, session_seq, session_state, session_users,
                   ws_to_user, last_update_time, redis_enabled, redis_state,
                   redis_history, redis_users, task, open, lastRecv, hub, deleting, refresh>>

\* connections are accepted
Connecting(C) == \E c \in C, s \in Sessions : Connect(c, s)

\* connections are closed by their clients
Closing(C) ==
    \/ \E c \in C : ClientClose(c)
    \/ \E c \in C : Disconnected(c)

\* auth frames with the tokens Tk[c], and the fan-out of every broadcast
Joining(C, Tk, n) ==
    \/ \E c \in C : \E tok \in Tk[c] : Below(c, n) /\ Auth(c, tok)
    \/ \E c \in C : AuthBroadcast(c)
    \/ \E c \in C : FanOutStep(c)

\* param:update frames with the payloads P
Proposing(C, P, n) == \E c \in C, params \in P : Below(c, n) /\ ParamUpdate(c, params)

\* the conflict:detected frames after the first of a handler
Reporting(C) == \E c \in C : ConflictSend(c)

\* conflict:resolved frames with the <<param, resolvedValue>> pairs RK
Resolving(C, RK, n) ==
    \E c \in C, r \in RK : Below(c, n) /\ ConflictResolved(c, r[1], r[2])

Querying(C) ==
    \/ \E c \in C, last \in LastSeenSeqs : Resync(c, last)
    \/ \E c \in C : Ping(c)

\* frames that are malformed, of an unknown type or lack a field
Framing(C) == \E c \in C, kind \in FrameKinds : BadFrame(c, kind)

\* sessions are deleted through the REST API
Deleting ==
    \/ \E s \in Sessions : DeleteSession(s)
    \/ DeleteStep

Two == {"c1", "c2"}

OneUserEach == [c \in Conns |-> IF c = "c2" THEN {"tokB"} ELSE {"tokA"}]

\* c3 only listens
TwoUsers == [c \in Conns |-> IF c = "c1" THEN {"tokA"} ELSE IF c = "c2" THEN {"tokB"} ELSE {}]

\* two connections of one session: every frame type, connects and disconnects
Next ==
    \/ Connecting(Two)
    \/ Closing(Two)
    \/ Joining(Two, OneUserEach, MaxSeq)
    \/ Proposing(Two, PlainProposals, MaxSeq)
    \/ Resolving(Two, {<<"mu", 6500>>}, MaxSeq)
    \/ Querying(Two)

Spec == Init /\ [][Next]_vars

\* two participants proposing against each other while time passes
NextConflict ==
    \/ Connecting(Two)
    \/ Joining(Two, OneUserEach, MaxUpdateSeq)
    \/ Proposing(Two, ConflictProposals, MaxUpdateSeq)
    \/ Reporting(Two)
    \/ Closing({"c2"})
    \/ Tick

SpecConflict == Init /\ [][NextConflict]_vars

\* three connections, one of which may leave while a broadcast is under way
NextFanOut ==
    \/ Connecting(Conns)
    \/ Closing({"c2"})
    \/ Joining(Conns, TwoUsers, MaxSeq)
    \/ Proposing({"c1"}, PlainProposals, MaxSeq)

SpecFanOut == InitMemory /\ [][NextFanOut]_vars

\* payloads the endpoint never validates
NextPayload ==
    \/ Connecting(Two)
    \/ Closing(Two)
    \/ Joining(Two, OneUserEach, MaxSeq)
    \/ Proposing(Two, OddProposals, MaxSeq)
    \/ Querying(Two)

SpecPayload == Init /\ [][NextPayload]_vars

\* hubs torn down and created again, with the store enabled or disabled
NextStore ==
    \/ Connecting(Two)
    \/ Closing(Two)
    \/ Joining(Two, OneUserEach, MaxSeq)
    \/ Proposing(Two, PlainProposals, MaxSeq)

SpecStore == InitAnyStore /\ [][NextStore]_vars

\* every connection may authenticate as either user, and more than once
AnyUser == [c \in Conns |-> {"tokA", "tokB"}]

\* one user on two connections, one connection under two identities
NextRoster ==
    \/ Connecting(Two)
    \/ Closing(Two)
    \/ Joining(Two, AnyUser, MaxSeq)

SpecRoster == InitMemory /\ [][NextRoster]_vars

\* three connections, two of which may leave, one while the other's
\* session:left is under way
NextLeave ==
    \/ Connecting(Conns)
    \/ Closing(Two)
    \/ Joining(Conns, TwoUsers, MaxSeq)

SpecLeave == InitMemory /\ [][NextLeave]_vars

\* three connections, one resolving conflicts while another may leave
NextResolve ==
    \/ Connecting(Conns)
    \/ Closing({"c2"})
    \/ Joining(Conns, TwoUsers, MaxSeq)
    \/ Resolving({"c1"}, {<<"mu", 6500>>}, MaxSeq)

SpecResolve == InitMemory /\ [][NextResolve]_vars

\* one user per connection
ThreeUsers ==
    [c \in Conns |-> IF c = "c1" THEN {"tokA"} ELSE IF c = "c2" THEN {"tokB"} ELSE {"tokC"}]

\* The hub of s1 after c1, c2 and c3 have connected and authenticated, in
\* that order, as A, B and C: three session:joined stamped, the second and
\* third received by the connections that were there before, every fan-out
\* over.
InitThree ==
    /\ active_connections = [s \in {"s1"} |-> Conns]
    /\ session_seq = [s \in {"s1"} |-> 3]
    /\ session_state = [s \in {"s1"} |-> SessionStateDefault]
    /\ session_users = [s \in {"s1"} |-> <<"A", "B", "C">>]
    /\ ws_to_user = [c \in Conns |-> VerifyToken(CHOOSE tok \in ThreeUsers[c] : TRUE)]
    /\ last_update_time = [s \in {"s1"} |-> EmptyDict]
    /\ redis_enabled = FALSE
    /\ redis_state = EmptyDict
    /\ redis_history = EmptyDict
    /\ redis_users = EmptyDict
    /\ task = [c \in Conns |->
                 [IdleTask EXCEPT !.pc = "recv", !.session_id = "s1",
                                  !.user_id = VerifyToken(CHOOSE tok \in ThreeUsers[c] : TRUE)]]
    /\ open = [c \in Conns |-> TRUE]
    /\ deleting = NoDelete
    /\ refresh = NoRefresh
    /\ now = 0
    /\ sent = NothingSent
    /\ lastRecv = [c \in Conns |-> IF c = "c3" THEN 0 ELSE 3]
    /\ hub = [s \in {"s1"} |->
                [NewHub(0, SessionStateDefault) EXCEPT !.lastSeq = 3, !.joined = 3]]

\* three participants, two of them proposing against each other
NextThree ==
    \/ Joining(Conns, ThreeUsers, MaxUpdateSeq + 1)
    \/ Proposing({"c2"}, PlainProposals, MaxUpdateSeq + 1)
    \/ Proposing({"c3"}, {One("mu", 6500)}, MaxUpdateSeq + 1)

SpecThree == InitThree /\ [][NextThree]_vars

\* sessions deleted while their participants join, update and leave
NextDelete ==
    \/ Connecting(Two)
    \/ Closing({"c2"})
    \/ Joining(Two, OneUserEach, MaxSeq)
    \/ Proposing({"c1"}, PlainProposals, MaxSeq)
    \/ Deleting

SpecDelete == Init /\ [][NextDelete]_vars

\* the tokens presented to refresh: issued at instant 0 or with a lifetime
\* that ends at 0, 250 or 500 ms, well signed or not
TokenInputs ==
    {[user_id |-> u, username |-> n, email |-> e, is_anonymous |-> a, exp |-> x,
      iat |-> 0, signed |-> g] :
        u \in {"A", "B"}, n \in {"Ann", "User 3f9a1c"}, e \in {"none", "ann@example.org"},
        a \in BOOLEAN, x \in {0, TickMs, 2 * TickMs, TokenLifeMs}, g \in BOOLEAN}

InitToken ==
    /\ \E tok \in TokenInputs : refresh = [NoRefresh EXCEPT !.token = tok]
    /\ active_connections = EmptyDict
    /\ session_seq = EmptyDict
    /\ session_state = EmptyDict
    /\ session_users = EmptyDict
    /\ ws_to_user = EmptyDict
    /\ last_update_time = EmptyDict
    /\ redis_enabled = FALSE
    /\ redis_state = EmptyDict
    /\ redis_history = EmptyDict
    /\ redis_users = EmptyDict
    /\ task = [c \in Conns |-> IdleTask]
    /\ open = [c \in Conns |-> FALSE]
    /\ deleting = NoDelete
    /\ now = 0
    /\ sent = NothingSent
    /\ lastRecv = [c \in Conns |-> 0]
    /\ hub = EmptyDict

\* tokens refreshed as time passes
NextToken ==
    \/ Refresh
    \/ RefreshAgain
    \/ Tick

SpecToken == InitToken /\ [][NextToken]_vars

\* a participant and a listener whose hub is torn down and hydrated again
MaxHistorySeq == 5

\* c2 and c3 only listen
OnlyA == [c \in Conns |-> IF c = "c1" THEN {"tokA"} ELSE {}]

NextHistory ==
    \/ Connecting(Two)
    \/ Closing(Two)
    \/ Joining(Two, OnlyA, MaxHistorySeq)
    \/ Proposing({"c1"}, PlainProposals \cup ConflictProposals, MaxHistorySeq)

SpecHistory == Init /\ [][NextHistory]_vars

\* two sessions on one server: c1 in s1, c2 in s2, c3 in either
TwoSessions == {"s1", "s2"}

ConnectingTo(C, S) == \E c \in C, s \in S : Connect(c, s)

MaxSessionSeq == 2

NextSessions ==
    \/ ConnectingTo({"c1"}, {"s1"})
    \/ ConnectingTo({"c2"}, {"s2"})
    \/ ConnectingTo({"c3"}, TwoSessions)
    \/ Closing({"c3"})
    \/ Joining(Conns, ThreeUsers, MaxSessionSeq)
    \/ Proposing(Two, PlainProposals, MaxSessionSeq)
    \/ Resolving({"c3"}, {<<"mu", 6500>>}, MaxSessionSeq)
    \/ Querying({"c3"})

SpecSessions == InitMemory /\ [][NextSessions]_vars

\* frames outside the protocol
NextFrames ==
    \/ Connecting(Two)
    \/ Closing(Two)
    \/ Joining(Two, OneUserEach, MaxSeq)
    \/ Framing(Two)

SpecFrames == Init /\ [][NextFrames]_vars

\* every connection has its user's token and one that does not verify
MayFail == [c \in Conns |-> OneUserEach[c] \cup {"bad"}]

\* auth frames that fail and succeed
NextAuth ==
    \/ Connecting(Two)
    \/ Closing(Two)
    \/ Joining(Two, MayFail, MaxSeq)

SpecAuth == Init /\ [][NextAuth]_vars

\* ================================================================== claims
\* the sessions whose hub is live
Live == (DOMAIN hub) \cap (DOMAIN active_connections) \cap (DOMAIN session_seq)

\* C1: while a hub is live, every seq it stamps on a broadcast is exactly one
\* more than the seq it stamped before (the first stamp one more than the
\* counter the hub started from), and the counter stands at the last stamp:
\* no value is skipped, repeated or taken back.
C1_SeqStepsByOne ==
    \A s \in DOMAIN hub :
        /\ hub[s].chain
        /\ s \in DOMAIN session_seq => session_seq[s] = hub[s].lastSeq
        /\ hub[s].lastSeq = hub[s].seq0 + hub[s].joined + hub[s].left + hub[s].updates

\* a hub that has stamped a join, an update and a leave
C1_Witness ==
    \E s \in Live : hub[s].joined >= 1 /\ hub[s].updates >= 1 /\ hub[s].left >= 1

\* the connections of s whose auth handler has finished
Joined(s) ==
    {c \in active_connections[s] : c \in DOMAIN ws_to_user /\ task[c].pc # "authSent"}

\* the hub of s started from seq 0 and is live
Fresh(s) == s \in Live /\ hub[s].seq0 = 0

\* C10 (as the code has it): in a fresh session the hub's seq is 0 only until
\* the first successful auth. Every successful auth stamps a session:joined
\* broadcast, so seq is at least the number of authenticated connections plus
\* the updates stamped, and exactly that when nothing else was stamped: 1 after
\* A has joined, 3 for the first update after A and B have joined.
C10_JoinsAdvanceSeq ==
    \A s \in DOMAIN hub :
        Fresh(s) =>
            /\ session_seq[s] >= Cardinality(Joined(s)) + hub[s].updates
            /\ (hub[s].joined = Cardinality(Joined(s)) /\ hub[s].left = 0)
                   => session_seq[s] = Cardinality(Joined(s)) + hub[s].updates

\* A and B have joined and the first update is being sent with seq 3
C10_Witness ==
    \E s \in DOMAIN hub :
        /\ Fresh(s)
        /\ Cardinality(Joined(s)) = 2
        /\ hub[s].joined = 2 /\ hub[s].left = 0 /\ hub[s].updates = 1
        /\ sent.frame.type = "param:broadcast"
        /\ sent.frame.seq = 3

\* C10 (as stated): in a fresh session seq is still 0 after participants have
\* joined, and the first accepted update is broadcast with seq 1.
C10_SeqZeroUntilFirstUpdate ==
    \A s \in DOMAIN hub :
        (Fresh(s) /\ hub[s].left = 0) =>
            /\ hub[s].updates = 0 => session_seq[s] = 0
            /\ hub[s].updates = 1 => session_seq[s] = 1

\* C2: every connection receives the broadcasts of its hub in strictly
\* increasing seq order: a broadcast frame written to a connection carries a
\* seq above that of the broadcast frame written to it before.
C2_InOrderDelivery ==
    [][(sent'.to \in Conns /\ sent'.frame.type \in BroadcastTypes)
          => sent'.frame.seq > lastRecv[sent'.to]]_vars

\* a payload with a numeric field outside the range messages.py declares
OutOfBounds(p) == \E k \in DOMAIN p : IsNumber(p[k]) /\ ~InBounds(k, p[k])

\* C3: a param:update with a field outside its declared bounds leaves state
\* and seq as they were and sends no broadcast.
C3_OutOfBoundsRejected ==
    [][\A c \in Conns, p \in OddProposals :
          (OutOfBounds(p) /\ ParamUpdate(c, p))
              => /\ session_state' = session_state
                 /\ session_seq' = session_seq
                 /\ sent'.frame.type # "param:broadcast"]_vars

\* C9: the (params, seq) pair the hub hands out is the hub's initial state
\* with the broadcast updates applied in seq order, no more and no less.
C9_StateIsBroadcastUpdates ==
    \A s \in DOMAIN hub :
        s \in DOMAIN session_state =>
            /\ GetSessionState(Mem, s).params = hub[s].emitted
            /\ s \in DOMAIN session_seq => GetSessionState(Mem, s).seq = hub[s].lastSeq

\* the hub-side data a rejected proposal must leave alone
HubData ==
    <<active_connections, session_seq, session_state, session_users, ws_to_user,
      last_update_time, redis_state, redis_history, redis_users>>

\* the condition of detect_conflict on the registry as it stands: field k was
\* stamped less than the window ago and its stored value is further than the
\* tolerance from v
Clashes(s, k, v) ==
    /\ s \in DOMAIN last_update_time
    /\ k \in DOMAIN last_update_time[s]
    /\ now - last_update_time[s][k] < ConflictWindowMs
    /\ s \in DOMAIN session_state
    /\ Abs(session_state[s][k] - v) > Tolerance

\* the parameters named by the conflict:detected frame just sent to c and by
\* those its handler still has to send
Reported(c) ==
    IF sent'.to = c /\ sent'.frame.type = "conflict:detected"
    THEN {sent'.frame.conflict.param} \cup {d.param : d \in SeqElems(task'[c].pend)}
    ELSE {}

\* C4: when the conflict check of a param:update fires (the proposer's
\* transport being open), nothing of the proposal is applied: state, seq,
\* update times, roster and the store are as before, the only frame goes to
\* the proposer, and the conflict:detected frames, sent and still to send,
\* are one per conflicting parameter. The later frames of the handler change
\* nothing either.
C4_ConflictRejectsProposal ==
    [][\A c \in Conns :
          /\ \A p \in ConflictProposals :
                (/\ ParamUpdate(c, p)
                 /\ task[c].user_id # NoUser
                 /\ open[c]
                 /\ \E k \in DOMAIN p : Clashes(task[c].session_id, k, p[k]))
                    => /\ UNCHANGED HubData
                       /\ sent'.to = c
                       /\ sent'.frame.type = "conflict:detected"
                       /\ Reported(c) = {k \in DOMAIN p : Clashes(task[c].session_id, k, p[k])}
                       /\ 1 + Len(task'[c].pend) = Cardinality(Reported(c))
          /\ (ConflictSend(c) /\ open[c])
                => /\ UNCHANGED HubData
                   /\ sent'.to = c
                   /\ sent'.frame = ConflictFrame(Head(task[c].pend))
                   /\ task'[c].pend = Tail(task[c].pend)]_vars

\* a proposal of mu and omega was rejected for its mu alone: omega, which did
\* not conflict, is still at its default
C4_Witness ==
    /\ sent.frame.type = "conflict:detected"
    /\ sent.frame.conflict.param = "mu"
    /\ sent.frame.conflict.yourValue = 6500
    /\ task[sent.to].pc = "recv"
    /\ \E s \in Live : session_state[s].omega = OmegaDefault /\ sent.to \in active_connections[s]

\* C5: a conflict:detected frame is never sent to the participant who made the
\* last accepted update of the parameter it names.
C5_NoConflictWithOneself ==
    [][\A c \in Conns :
          (/\ sent'.to = c
           /\ sent'.frame.type = "conflict:detected"
           /\ task[c].session_id \in DOMAIN hub)
              => hub[task[c].session_id].updater[sent'.frame.conflict.param]
                     # task[c].user_id]_vars

\* C6: for a proposal by a participant other than the last updater of a
\* parameter, a conflict is raised for that parameter if and only if this hub
\* has accepted an update of it, less than 500 ms before the proposal, and the
\* stored value is more than 0.001 away from the proposed one; so none is
\* raised on a hub just created or just rehydrated.
C6_ConflictIffRecentAndDifferent ==
    [][\A c \in Conns, p \in ConflictProposals :
          (/\ ParamUpdate(c, p)
           /\ task[c].user_id # NoUser
           /\ open[c]
           /\ task[c].session_id \in Live)
              => LET s == task[c].session_id
                 IN  \A k \in DOMAIN p :
                        hub[s].updater[k] # task[c].user_id
                            => (k \in Reported(c)
                                   <=> /\ hub[s].updater[k] # NoUser
                                       /\ now - hub[s].at[k] < ConflictWindowMs
                                       /\ s \in DOMAIN session_state
                                       /\ Abs(session_state[s][k] - p[k]) > Tolerance)]_vars

\* a conflict was raised against another participant's update
C6_Witness ==
    /\ sent.frame.type = "conflict:detected"
    /\ task[sent.to].session_id \in Live
    /\ hub[task[sent.to].session_id].updater[sent.frame.conflict.param]
           \notin {NoUser, task[sent.to].user_id}

\* C7: when a param:update is accepted, every proposed primary holds the
\* proposed value, seq has grown by one, the update time of every touched
\* primary is the instant of acceptance, the param:broadcast never goes to
\* the proposer, and by the time its fan-out is over it has been sent to
\* every other connection that was in the session when it started and still is.
C7_AcceptedUpdateReachesPeers ==
    [][\A c \in Conns :
          LET s == task[c].session_id
          IN  /\ \A p \in PlainProposals :
                    (/\ ParamUpdate(c, p)
                     /\ s \in DOMAIN hub /\ s \in DOMAIN hub'
                     /\ hub'[s].updates = hub[s].updates + 1)
                        => /\ \A k \in DOMAIN p :
                                 /\ session_state'[s][k] = p[k]
                                 /\ last_update_time'[s][k] = now
                           /\ session_seq'[s] = session_seq[s] + 1
                           /\ sent'.frame.type = "param:broadcast" => sent'.to # c
              /\ (/\ task[c].pc = "fanout"
                  /\ task[c].msg.via = "update"
                  /\ task'[c].msg # task[c].msg
                  /\ s \in DOMAIN active_connections')
                     => \A d \in (task[c].orig \cap active_connections'[s]) \ {c} :
                            open[d] =>
                                \/ d \in task[c].seen
                                \/ sent' = [to |-> d, frame |-> MsgFrame(task[c].msg)]]_vars

\* C8: an accepted proposal passed its conflict check on the very state it is
\* applied to: in the step that stamps a proposal, no parameter of it clashes
\* with the registry as that step finds it, so nothing another task applied
\* lies between the check and the application.
C8_CheckAndApplyAtomic ==
    [][\A c \in Conns, p \in ConflictProposals :
          LET s == task[c].session_id
          IN  (/\ ParamUpdate(c, p)
               /\ s \in DOMAIN hub
               /\ s \in DOMAIN hub'
               /\ hub'[s].updates = hub[s].updates + 1)
                  => \A k \in DOMAIN p : ~Clashes(s, k, p[k])]_vars

\* an accepted proposal is on its way to the peers while another task of the
\* hub is suspended in its own handler
C8_Witness ==
    \E c, d \in Conns :
        /\ c # d
        /\ task[c].pc = "fanout"
        /\ task[c].msg.via = "update"
        /\ task[d].session_id = task[c].session_id
        /\ task[d].pc \in {"fanout", "authSent", "conflicts"}

\* C11: a session:resync changes nothing in the hub (state, seq, roster,
\* update times, connection set, the store), sends nothing to another
\* connection, and answers the requester with a session:state carrying the
\* hub's current seq and current state, whatever lastSeenSeq it sent.
C11_ResyncReadsOnly ==
    [][\A c \in Conns, last \in LastSeenSeqs :
          (Resync(c, last) /\ open[c])
              => /\ UNCHANGED HubData
                 /\ hub' = hub
                 /\ sent'.to = c
                 /\ sent'.frame.type = "session:state"
                 /\ LET s == task[c].session_id
                    IN  (s \in DOMAIN session_state /\ s \in DOMAIN session_seq)
                            => /\ sent'.frame.currentState.seq = session_seq[s]
                               /\ sent'.frame.currentState.params = session_state[s]]_vars

\* a resync answered with a state that is no longer the initial one
C11_Witness ==
    /\ sent.frame.type = "session:state"
    /\ sent.frame.currentState.seq >= 2
    /\ sent.frame.currentState.params.mu # MuDefault

\* C12: a connection that is accepted but has not authenticated receives no
\* session data: no param:broadcast, session:joined or session:left frame is
\* written to it, and no session:state answers its resync.
C12_NoDataBeforeAuth ==
    [][(/\ sent'.to \in Conns
        /\ sent'.frame.type \in BroadcastTypes \cup {"session:state"})
          => task[sent'.to].user_id # NoUser]_vars

\* the sessions that have any live structure in the registry
Registered ==
    (DOMAIN active_connections) \cup (DOMAIN session_seq) \cup (DOMAIN session_state)
        \cup (DOMAIN session_users) \cup (DOMAIN last_update_time)

\* C13: a session with live hub structures has at least one participant in
\* its roster; once the roster is empty the structures are gone.
C13_LiveHubHasParticipant ==
    \A s \in Registered : s \in DOMAIN session_users /\ session_users[s] # << >>

NextStart(s) == IF s \in DOMAIN redis_state' THEN redis_state'[s].seq ELSE 0

\* C15: with the store enabled, the seq a rehydrated hub starts from is at
\* least every seq the previous hub of that session stamped: when a hub is
\* torn down, the store holds a seq no lower than the hub's last stamp.
C15_SeqSurvivesTeardown ==
    [][\A s \in Sessions :
          (redis_enabled /\ s \in DOMAIN hub /\ s \notin DOMAIN hub')
              => NextStart(s) >= hub[s].lastSeq]_vars

\* C16: a connect that creates the hub of a session from a stored snapshot
\* succeeds: afterwards the session has its connection set (holding the new
\* connection), seq, state, roster and update times, and mu, omega, kappa and
\* seq are exactly the stored ones.
C16_HydrationRoundTrip ==
    [][\A s \in Sessions, c \in Conns :
          (Connect(c, s) /\ s \notin DOMAIN active_connections /\ HasSnapshot(Mem, s))
              => /\ s \in DOMAIN session_state' /\ s \in DOMAIN session_seq'
                 /\ s \in DOMAIN session_users' /\ s \in DOMAIN last_update_time'
                 /\ s \in DOMAIN active_connections' /\ c \in active_connections'[s]
                 /\ session_state'[s].mu = redis_state[s].mu
                 /\ session_state'[s].omega = redis_state[s].omega
                 /\ session_state'[s].kappa = redis_state[s].kappa
                 /\ session_seq'[s] = redis_state[s].seq]_vars

\* beta as compute_beta derives it from the primaries of a state
Consistent(st) == IsNumber(st.mu) /\ IsNumber(st.kappa) /\ st.beta = BetaOf(st.mu, st.kappa)

\* C17: the state of every registered session has beta = 1 - mu - kappa*10.8
\* for its current mu and kappa, and every state handed to a client in
\* auth:success or session:state reports a beta consistent with its primaries.
C17_BetaConsistent ==
    /\ \A s \in DOMAIN session_state : Consistent(session_state[s])
    /\ sent.frame.type \in {"auth:success", "session:state"}
           => Consistent(sent.frame.currentState.params)

\* the users the connections of session s are authenticated as
AuthenticatedAs(s) ==
    {ws_to_user[c] : c \in active_connections[s] \cap DOMAIN ws_to_user}

\* C18: the roster of a session holds exactly the users that the connections
\* in its connection set are authenticated as.
C18_RosterMatchesConnections ==
    \A s \in DOMAIN active_connections :
        SeqElems(GetSessionUsers(Mem, s)) = AuthenticatedAs(s)

\* connection c is in no connection set and has no user mapping
Released(c) ==
    /\ \A s \in DOMAIN active_connections : c \notin active_connections[s]
    /\ c \notin DOMAIN ws_to_user

\* the tasks that have not ended and serve session s
TasksOf(s) == {c \in Conns : task[c].pc # "closed" /\ task[c].session_id = s}

\* C19 (what has happened once a task is over): a connection whose task has
\* ended is in no connection set and has no user mapping, and a session none of
\* whose tasks is left has no live structure.
C19_EndedTaskIsReleased ==
    /\ \A c \in Conns : task[c].pc = "closed" => Released(c)
    /\ \A s \in Registered : TasksOf(s) # {}

\* C20: when the task of an authenticated connection leaves its loop and the
\* hub of its session is live afterwards, a session:left with its userId is
\* stamped in that step; and by the time the fan-out of a session:left is
\* over, the frame has been sent to every connection that was in the session
\* when it started, still is, and is open.
C20_LeftReachesPeers ==
    [][\A c \in Conns :
          LET s == task[c].session_id
              T == task[c]
          IN  /\ (/\ T.pc # "closed" /\ T.msg.via # "left"
                  /\ T.user_id # NoUser
                  /\ task'[c].pc = "closed" \/ task'[c].msg.via = "left"
                  /\ s \in DOMAIN hub /\ s \in DOMAIN hub')
                     => /\ hub'[s].left = hub[s].left + 1
                        /\ \/ task'[c].msg.userId = T.user_id
                           \/ sent'.frame = [NoFrame EXCEPT !.type = "session:left",
                                                            !.seq = hub'[s].lastSeq,
                                                            !.userId = T.user_id]
              /\ (/\ T.pc = "fanout"
                  /\ T.msg.via = "left"
                  /\ task'[c].msg # T.msg
                  /\ s \in DOMAIN active_connections')
                     => \A d \in T.orig \cap active_connections'[s] :
                            open[d] =>
                                \/ d \in T.seen
                                \/ sent' = [to |-> d, frame |-> MsgFrame(T.msg)]]_vars

\* C21: a successful auth on an open connection of a live hub adds the user to
\* the roster and sends the connection auth:success with the session id, the
\* user id, the roster and the hub's params and seq; the session:joined that
\* follows is stamped for that user, never goes to the joining connection,
\* and by the time its fan-out is over it has been sent to every other
\* connection that was in the session when it started and still is.
C21_AuthAnnouncesJoin ==
    [][\A c \in Conns :
          LET s == task[c].session_id
              T == task[c]
          IN  /\ \A tok \in Tokens :
                    (/\ Auth(c, tok) /\ VerifyToken(tok) # NoUser
                     /\ open[c] /\ s \in DOMAIN session_state /\ s \in DOMAIN session_seq)
                        => /\ VerifyToken(tok) \in SeqElems(session_users'[s])
                           /\ ws_to_user'[c] = VerifyToken(tok)
                           /\ sent' = [to |-> c,
                                       frame |-> AuthSuccessFrame(s, VerifyToken(tok),
                                                    session_users'[s],
                                                    [params |-> session_state[s],
                                                     seq |-> session_seq[s]])]
                           /\ session_seq'[s] = session_seq[s]
              /\ (AuthBroadcast(c) /\ s \in DOMAIN hub /\ s \in DOMAIN hub')
                    => /\ hub'[s].joined = hub[s].joined + 1
                       /\ session_seq'[s] = session_seq[s] + 1
                       /\ sent'.frame.type = "session:joined"
                             => /\ sent'.to # c
                                /\ sent'.frame = [NoFrame EXCEPT !.type = "session:joined",
                                                                 !.seq = session_seq'[s],
                                                                 !.userId = T.user_id]
              /\ (/\ T.pc = "fanout"
                  /\ T.msg.via = "joined"
                  /\ task'[c].msg # T.msg
                  /\ s \in DOMAIN active_connections')
                     => \A d \in (T.orig \cap active_connections'[s]) \ {c} :
                            open[d] =>
                                \/ d \in T.seen
                                \/ sent' = [to |-> d, frame |-> MsgFrame(T.msg)]]_vars

\* C22: an auth frame whose token does not verify, on an open connection,
\* sends auth:failed to that connection and changes nothing else: registry,
\* store, hub record and every task are as before, the connection is still
\* open, receiving and as unauthenticated as it was; and a valid auth that
\* follows directly on the same connection authenticates it.
C22_FailedAuthChangesNothing ==
    [][\A c \in Conns, tok \in Tokens :
          /\ (Auth(c, tok) /\ tok \in Unverifiable /\ open[c])
                => /\ sent' = [to |-> c, frame |-> AuthFailedFrame]
                   /\ UNCHANGED <<active_connections, session_seq, session_state,
                                  session_users, ws_to_user, last_update_time,
                                  redis_state, redis_history, redis_users, hub,
                                  task, open>>
                   /\ task'[c].pc = "recv"
          /\ (/\ Auth(c, tok) /\ tok \notin Unverifiable /\ open[c]
              /\ sent = [to |-> c, frame |-> AuthFailedFrame])
                => /\ ws_to_user'[c] = VerifyToken(tok)
                   /\ task'[c].user_id = VerifyToken(tok)
                   /\ sent'.to = c /\ sent'.frame.type = "auth:success"]_vars

C22_Witness ==
    \E c \in Conns :
        /\ sent = [to |-> c, frame |-> AuthFailedFrame]
        /\ task[c].pc = "recv" /\ task[c].user_id = NoUser /\ open[c]
        /\ c \in active_connections["s1"]

\* connection c is a registered participant of the hub its task serves
Participant(c) ==
    LET s == task[c].session_id
    IN  /\ s \in DOMAIN active_connections /\ c \in active_connections[s]
        /\ c \in DOMAIN ws_to_user
        /\ s \in DOMAIN session_users /\ ws_to_user[c] \in SeqElems(session_users[s])

\* C23: a param:update or conflict:resolved handled for a connection that is
\* not a registered participant of its hub changes neither state nor seq nor
\* update times, writes nothing to the store and sends nothing.
C23_NonParticipantDropped ==
    [][\A c \in Conns :
          (/\ ~Participant(c)
           /\ \/ \E p \in PlainProposals : ParamUpdate(c, p)
              \/ ConflictResolved(c, "mu", 6500))
              => /\ UNCHANGED <<session_seq, session_state, last_update_time,
                                redis_state, redis_history>>
                 /\ sent' = NothingSent]_vars

\* C24: a conflict:resolved of an authenticated connection, on a hub that is
\* live, sets the parameter to the resolved value, raises seq by one and
\* stamps the parameter's update time, also when the value clashes with the
\* registry; the param:broadcast carries the new seq and never goes to the
\* sender, and by the time its fan-out is over it has been sent to every other
\* connection that was in the session when it started and still is.
C24_ResolveIsAcceptedUpdate ==
    [][\A c \in Conns :
          LET s == task[c].session_id
              T == task[c]
          IN  /\ (/\ ConflictResolved(c, "mu", 6500)
                  /\ T.user_id # NoUser
                  /\ s \in DOMAIN hub /\ s \in DOMAIN hub')
                     => /\ session_state'[s].mu = 6500
                        /\ session_state'[s].beta = BetaOf(6500, session_state[s].kappa)
                        /\ session_seq'[s] = session_seq[s] + 1
                        /\ last_update_time'[s]["mu"] = now
                        /\ hub'[s].updates = hub[s].updates + 1
                        /\ sent'.frame.type = "param:broadcast"
                              => /\ sent'.to # c
                                 /\ sent'.frame.seq = session_seq'[s]
                                 /\ sent'.frame.userId = T.user_id
                                 /\ sent'.frame.params = One("mu", 6500)
              /\ (/\ T.pc = "fanout"
                  /\ T.msg.via = "resolved"
                  /\ task'[c].msg # T.msg
                  /\ s \in DOMAIN active_connections')
                     => \A d \in (T.orig \cap active_connections'[s]) \ {c} :
                            open[d] =>
                                \/ d \in T.seen
                                \/ sent' = [to |-> d, frame |-> MsgFrame(T.msg)]]_vars

\* C25: a frame that is malformed, of an unknown type or without a required
\* field, arriving on an open connection, is ignored: the task goes back to
\* receiving, the connection stays in its session's connection set, and the
\* hub's state, seq and roster are unchanged.
C25_BadFrameIgnored ==
    [][\A c \in Conns, kind \in FrameKinds :
          (/\ BadFrame(c, kind) /\ open[c]
           /\ task[c].session_id \in DOMAIN active_connections
           /\ c \in active_connections[task[c].session_id])
              => /\ task'[c].pc = "recv"
                 /\ open'[c]
                 /\ task[c].session_id \in DOMAIN active_connections'
                 /\ c \in active_connections'[task[c].session_id]
                 /\ UNCHANGED <<session_state, session_seq, session_users>>]_vars

\* C26: a conflict:detected frame sent for a parameter that another
\* participant updated last carries the stored value of the parameter as
\* theirValue, the proposed value as yourValue and that participant as
\* theirUserId.
C26_ConflictNamesUpdater ==
    [][\A c \in Conns :
          LET s == task[c].session_id
              d == sent'.frame.conflict
          IN  (/\ sent'.to = c
               /\ sent'.frame.type = "conflict:detected"
               /\ s \in DOMAIN hub /\ s \in DOMAIN session_state
               /\ hub[s].updater[d.param] \notin {task[c].user_id, NoUser})
                  => /\ d.theirValue = session_state[s][d.param]
                     /\ d.theirUserId = hub[s].updater[d.param]
                     /\ \A p \in PlainProposals \cup ConflictProposals \cup {One("mu", 6500)} :
                           ParamUpdate(c, p) => d.yourValue = p[d.param]]_vars

\* C27: when delete_session has returned for a session that was live, the
\* session has no live structure, every connection it had is closed, and the
\* store holds neither its snapshot nor its history nor its presence; for a
\* session without a hub the request changes nothing.
C27_DeleteRemovesEverything ==
    [][\A s \in Sessions :
          /\ (/\ \/ deleting.session_id = s /\ DeleteStep
                 \/ DeleteSession(s) /\ s \in DOMAIN active_connections
              /\ deleting' = NoDelete)
                => /\ s \notin Registered'
                   /\ \A c \in Conns : task'[c].session_id = s => ~open'[c]
                   /\ s \notin DOMAIN redis_state'
                   /\ s \notin DOMAIN redis_history'
                   /\ s \notin DOMAIN redis_users'
          /\ (DeleteSession(s) /\ s \notin DOMAIN active_connections)
                => UNCHANGED <<HubData, task, open, hub>>]_vars

\* what the clients of a hub can observe of the registry
Visible(M) ==
    [ac |-> M.ac, seq |-> M.seq, st |-> M.st, users |-> M.users, w2u |-> M.w2u,
     lut |-> M.lut]

\* the registry as it stands with another store: switched the other way
\* (a call that fails returns as a call on a disabled store does), emptied,
\* or both
OtherStores ==
    {[Mem EXCEPT !.on = ~@],
     [Mem EXCEPT !.rs = EmptyDict, !.rh = EmptyDict, !.ru = EmptyDict],
     [Mem EXCEPT !.on = ~@, !.rs = EmptyDict, !.rh = EmptyDict, !.ru = EmptyDict]}

SameOutcome(r1, r2) ==
    /\ Visible(r1.m) = Visible(r2.m)
    /\ r1.status = r2.status
    /\ r1.msg = r2.msg

\* C28: on a live hub every operation of the manager leaves the registry, and
\* returns to the endpoint, exactly what it would with the store switched
\* the other way or holding nothing: the broadcast head of every message
\* type (seq, state, update times, stamped message), add_user, disconnect,
\* get_session_state, the conflict check, and connect of one more connection.
C28_StoreInvisible ==
    \A s \in Live, M \in OtherStores :
        /\ \A uid \in {"A", "B"} :
              /\ \A p \in PlainProposals :
                    SameOutcome(BroadcastHead(Mem, s, "param:broadcast", uid, p, "update"),
                                BroadcastHead(M, s, "param:broadcast", uid, p, "update"))
              /\ \A type \in {"session:joined", "session:left"} :
                    SameOutcome(BroadcastHead(Mem, s, type, uid, EmptyDict, "joined"),
                                BroadcastHead(M, s, type, uid, EmptyDict, "joined"))
        /\ \A c \in Two :
              /\ \A uid \in {"A", "B"} :
                    Visible(AddUser(Mem, c, s, uid)) = Visible(AddUser(M, c, s, uid))
              /\ Visible(DisconnectM(Mem, c, s).m) = Visible(DisconnectM(M, c, s).m)
              /\ DisconnectM(Mem, c, s).raised = DisconnectM(M, c, s).raised
              /\ Visible(ConnectM(Mem, c, s).m) = Visible(ConnectM(M, c, s).m)
              /\ ConnectM(Mem, c, s).raised = ConnectM(M, c, s).raised
        /\ GetSessionState(Mem, s) = GetSessionState(M, s)
        /\ \A uid \in {"A", "B"}, p \in PlainProposals :
              ConflictResults(Mem, s, p, uid) = ConflictResults(M, s, p, uid)

C28_Witness ==
    \E s \in Live :
        /\ redis_enabled /\ hub[s].seq0 = 0 /\ hub[s].updates >= 1
        /\ s \in DOMAIN redis_state /\ redis_state[s].seq = hub[s].lastSeq
        /\ Cardinality(active_connections[s]) = 2

\* C29: a refresh of a token that verifies (well signed, not yet expired at
\* the instant of the call) returns a new, well signed token with the same
\* user id, display name, email and anonymous flag, valid for the token
\* lifetime from that instant; a refresh of any other token returns nothing.
C29_RefreshKeepsIdentity ==
    refresh.called =>
        IF refresh.token.signed /\ refresh.token.exp > refresh.at
        THEN /\ refresh.result # NoToken
             /\ refresh.result.signed
             /\ refresh.result.user_id = refresh.token.user_id
             /\ refresh.result.username = refresh.token.username
             /\ refresh.result.email = refresh.token.email
             /\ refresh.result.is_anonymous = refresh.token.is_anonymous
             /\ refresh.result.exp = refresh.at + TokenLifeMs
        ELSE refresh.result = NoToken

\* a token that had expired was refused, and another was refreshed twice
C29_Witness ==
    /\ refresh.called
    /\ \/ refresh.token.signed /\ refresh.token.exp = TickMs /\ refresh.at = TickMs
          /\ refresh.result = NoToken
       \/ refresh.token.iat > 0 /\ refresh.result # NoToken /\ refresh.token.is_anonymous

\* C30: once a send of a fan-out has failed, the loop goes on: while it
\* runs, the task's own steps remove nothing from the registry, and when the
\* fan-out is over every connection that was in the session when it started
\* and still is has been tried, and every peer whose send failed is in no
\* connection set of the session, has no user mapping and its user is not in
\* the roster.
C30_DeadPeersRemovedAfterLoop ==
    [][\A c \in Conns :
          LET T == task[c]
              s == T.session_id
          IN  (T.pc = "fanout" /\ T.dead # {}) =>
                /\ (task'[c].pc = "fanout" /\ task'[c].msg = T.msg
                    /\ T.seen \subseteq task'[c].seen /\ task'[c].seen # T.seen)
                      => /\ active_connections' = active_connections
                         /\ session_users' = session_users
                         /\ ws_to_user' = ws_to_user
                /\ (task'[c].pc # "fanout" \/ task'[c].msg # T.msg)
                      => /\ s \in DOMAIN active_connections'
                            => /\ T.dead \cap active_connections'[s] = {}
                               /\ (T.orig \cap active_connections'[s]) \ {T.excl}
                                     \subseteq T.seen
                         /\ \A d \in T.dead :
                              /\ d \notin DOMAIN ws_to_user'
                              /\ (d \in DOMAIN ws_to_user /\ s \in DOMAIN session_users')
                                    => ws_to_user[d] \notin SeqElems(session_users'[s])]_vars

\* the history of s in the store
HistoryOf(s) == IF s \in DOMAIN redis_history THEN redis_history[s] ELSE << >>

\* a param:broadcast is stamped for s in this step
UpdateStamped(s) ==
    /\ s \in DOMAIN hub /\ s \in DOMAIN hub'
    /\ hub'[s].updates = hub[s].updates + 1

\* the store holds, after the step, the state and seq of the update and one
\* more history event: that seq, that user and those params
Persisted(s, uid, params) ==
    /\ s \in DOMAIN redis_state' /\ s \in DOMAIN session_state'
    /\ redis_state'[s] = Snapshot(session_state'[s], hub'[s].lastSeq)
    /\ s \in DOMAIN redis_history'
    /\ redis_history'[s] =
          Append(HistoryOf(s), [seq |-> hub'[s].lastSeq, user_id |-> uid, params |-> params])

\* C31: with the store enabled, the step that accepts a param:update or a
\* conflict:resolved writes the snapshot of the state after the update with
\* the seq of its broadcast and appends one history event with that seq, the
\* proposer's user id and the proposed params; every other step (joins,
\* leaves, conflicted proposals, resyncs, pings, sends) leaves the snapshot and
\* the history as they were.
C31_UpdateWritesSnapshotAndEvent ==
    [][/\ \A c \in Conns : \A params \in PlainProposals \cup ConflictProposals :
             (UpdateStamped(task[c].session_id) /\ ParamUpdate(c, params))
                => Persisted(task[c].session_id, task[c].user_id, params)
       /\ \A c \in Conns :
             (UpdateStamped(task[c].session_id) /\ ConflictResolved(c, "mu", 6500))
                => Persisted(task[c].session_id, task[c].user_id, One("mu", 6500))
       /\ (\A s \in Sessions : ~UpdateStamped(s))
             => /\ redis_state' = redis_state
                /\ redis_history' = redis_history]_vars

\* a proposal was refused as a conflict after an update had been persisted
C31_Witness ==
    \E c \in Conns :
        /\ sent.to = c /\ sent.frame.type = "conflict:detected"
        /\ redis_enabled
        /\ Len(HistoryOf("s1")) >= 1
        /\ HistoryOf("s1")[Len(HistoryOf("s1"))].seq = redis_state["s1"].seq
        /\ redis_state["s1"].seq = session_seq["s1"]

\* what the store holds of the sessions: events of strictly increasing seq, a
\* snapshot exactly when there are events, its seq that of the newest event
HistoryOrdered ==
    /\ DOMAIN redis_state = DOMAIN redis_history
    /\ \A s \in DOMAIN redis_history :
          LET h == redis_history[s]
          IN  /\ h # << >>
              /\ \A i \in 1..(Len(h) - 1) : h[i].seq < h[i + 1].seq
              /\ redis_state[s].seq = h[Len(h)].seq

\* C32: with the store enabled, at every moment (a hub of the session live or
\* not, torn down and hydrated again any number of times) the events of a
\* session's history have strictly increasing seq and the snapshot's seq is
\* the seq of the newest event; and a step that changes a history adds one
\* event at its end, of a seq above every seq the history held, and removes
\* nothing but events beyond the last HistoryLimit.
C32_HistoryAppendOnly ==
    /\ [](redis_enabled => HistoryOrdered)
    /\ [][\A s \in DOMAIN redis_history :
            LET h == redis_history[s]
            IN  /\ s \in DOMAIN redis_history'
                /\ redis_history'[s] # h
                      => /\ Len(redis_history'[s]) >= 1
                         /\ redis_history'[s] =
                               LastEvents(Append(h, redis_history'[s][Len(redis_history'[s])]))
                         /\ redis_history'[s][Len(redis_history'[s])].seq > h[Len(h)].seq]_vars

\* an event was appended by a hub hydrated from the snapshot of an earlier one
C32_Witness ==
    /\ redis_enabled
    /\ "s1" \in Live
    /\ hub["s1"].seq0 >= 2
    /\ hub["s1"].updates >= 1
    /\ Len(HistoryOf("s1")) >= 2
    /\ HistoryOf("s1")[1].seq <= hub["s1"].seq0

\* C33: a connection accepted for a session that is live only joins its
\* connection set: seq, state, roster, update times, user mappings and store
\* are as they were, whatever the hub has acquired since it was created; a
\* connection accepted for a session that is not live creates its hub, with
\* that connection alone in the set.
C33_OneHubPerSession ==
    [][\A c \in Conns : \A s \in Sessions :
          IF s \in DOMAIN active_connections
          THEN (task[c].pc = "closed" /\ Connect(c, s))
                  => /\ active_connections' = [active_connections EXCEPT ![s] = @ \cup {c}]
                     /\ UNCHANGED <<session_seq, session_state, session_users,
                                    last_update_time, ws_to_user, hub, redis_state,
                                    redis_history, redis_users>>
          ELSE (task[c].pc = "closed" /\ Connect(c, s))
                  => /\ s \in DOMAIN hub' /\ s \in DOMAIN session_seq'
                     /\ hub'[s].lastSeq = session_seq'[s]
                     /\ hub'[s].seq0 = session_seq'[s]
                     /\ active_connections'[s] = {c}
                     /\ session_users'[s] = << >>]_vars

\* a connection has arrived at a hub that had a participant and an update, and
\* has received nothing yet
C33_Witness ==
    \E c \in Two :
        /\ "s1" \in Live
        /\ active_connections["s1"] = Two
        /\ open[c] /\ task[c].pc = "recv" /\ task[c].user_id = NoUser
        /\ lastRecv[c] = 0
        /\ \A d \in Two : task[d].pc = "recv"
        /\ hub["s1"].updates >= 1
        /\ session_seq["s1"] >= 2
        /\ session_users["s1"] # << >>
        /\ session_state["s1"].mu = 6000

\* what the registry holds of session s
HubView(s) ==
    [ac |-> IF s \in DOMAIN active_connections THEN active_connections[s] ELSE {},
     live |-> {s} \cap DOMAIN active_connections,
     seq |-> IF s \in DOMAIN session_seq THEN session_seq[s] ELSE None,
     st |-> IF s \in DOMAIN session_state THEN session_state[s] ELSE SessionStateDefault,
     users |-> IF s \in DOMAIN session_users THEN <<session_users[s]>> ELSE << >>,
     lut |-> IF s \in DOMAIN last_update_time THEN <<last_update_time[s]>> ELSE << >>]

\* a step of the task of connection c: a frame handled, a resumption, or its
\* transport found closed
StepOf(c) ==
    \/ \E tok \in Tokens : Auth(c, tok)
    \/ AuthBroadcast(c)
    \/ FanOutStep(c)
    \/ \E params \in PlainProposals : ParamUpdate(c, params)
    \/ ConflictResolved(c, "mu", 6500)
    \/ \E last \in LastSeenSeqs : Resync(c, last)
    \/ Ping(c)
    \/ Disconnected(c)

\* C34: a step of the task of a connection of session S (auth, param:update,
\* conflict:resolved, resync, ping, disconnect, a fan-out and its dead-peer
\* clean-up) leaves the connection set, seq, state, roster and update times
\* of every other session as they were, and a frame it sends goes to a
\* connection that S's task or connection set holds.
C34_SessionsIsolated ==
    [][\A c \in Conns :
          LET s == task[c].session_id
          IN  (/\ task[c].pc # "closed"
               /\ task'[c] # task[c] \/ sent'.to = c
               /\ StepOf(c))
                       => /\ \A t \in TwoSessions \ {s} : HubView(t)' = HubView(t)
                          /\ sent'.to # NoConn
                                => \/ sent'.to = c
                                   \/ /\ s \in DOMAIN active_connections
                                      /\ sent'.to \in active_connections[s]
                                   \/ sent'.to \in task[c].orig]_vars

\* c3, in s2 with c2, is sent an update of s2 while s1 has its own seq and state
C34_Witness ==
    /\ "s1" \in Live /\ "s2" \in Live
    /\ active_connections["s2"] = {"c2", "c3"}
    /\ active_connections["s1"] = {"c1"}
    /\ sent.to = "c3" /\ sent.frame.type = "param:broadcast"
    /\ session_seq["s1"] = 1 /\ session_seq["s2"] = 2
    /\ session_state["s1"].mu = MuDefault /\ session_state["s2"].mu = 6000

\* C35: the connection sets, seq, state, roster and update times are kept for
\* exactly the same sessions, and every connection with a user mapping is in
\* the connection set of some session.
C35_RegistryInStep ==
    /\ DOMAIN session_seq = DOMAIN active_connections
    /\ DOMAIN session_state = DOMAIN active_connections
    /\ DOMAIN session_users = DOMAIN active_connections
    /\ DOMAIN last_update_time = DOMAIN active_connections
    /\ \A ws \in DOMAIN ws_to_user :
          \E s \in DOMAIN active_connections : ws \in active_connections[s]

\* C36: whatever has joined or left the session while a fan-out was suspended,
\* by the time the fan-out is over the frame has been sent to every connection
\* that was in the session when it started, still is, and is open; and the
\* task that broadcasts from its receive loop is back in the loop, its
\* connection neither closed nor removed.
C36_FanOutUndisturbed ==
    [][\A c \in Conns :
          LET T == task[c]
              s == T.session_id
          IN  (/\ T.pc = "fanout"
               /\ task'[c].pc # "fanout" \/ task'[c].msg # T.msg
               /\ FanOutStep(c))
                 => /\ s \in DOMAIN active_connections'
                       => \A d \in (T.orig \cap active_connections'[s]) \ {T.excl} :
                             open[d] => d \in T.seen
                    /\ T.msg.via # "left"
                       => /\ task'[c].pc = "recv"
                          /\ open'[c] = open[c]
                          /\ c \in active_connections[s] => c \in active_connections'[s]]_vars

\* C37: the primaries a hub stores are numbers at every moment; and when the
\* handling of a param:update fails and the task leaves its receive loop, no
\* seq has been stamped for the update and the state of the hub, if it is
\* still live, is the state before the frame.
C37_UpdateAllOrNothing ==
    /\ [](\A s \in DOMAIN session_state : \A k \in Fields : IsNumber(session_state[s][k]))
    /\ [][\A c \in Conns : \A params \in OddProposals :
            LET T == task[c]
                s == T.session_id
            IN  (/\ T.pc = "recv" /\ T.user_id # NoUser
                 /\ task'[c].pc = "closed" \/ task'[c].msg.via = "left"
                 /\ s \in DOMAIN hub /\ s \in DOMAIN hub'
                 /\ s \in DOMAIN session_state /\ s \in DOMAIN session_state'
                 /\ ParamUpdate(c, params))
                   => /\ hub'[s].updates = hub[s].updates
                      /\ session_state'[s] = session_state[s]]_vars
====
